---- MODULE Spec2Model ----
\* Model of the onion-fp-ts reference implementation: the service contracts
\* (capability bundles keyed by per-service symbols, accessor functions) and the
\* shell orchestration getAccountByUserEmail built on ReaderTaskEither.
EXTENDS Integers, Sequences, FiniteSets, TLC

\* ---------------------------------------------------------------- bounds
NumEmails == 2
NumUserIds == 2
NumAccountIds == 1
NumErrors == 1
NumMessages == 1
NumRuns == 2

Emails == 1..NumEmails
UserIds == 1..NumUserIds
AccountIds == 1..NumAccountIds
Messages == 1..NumMessages
Runs == 1..NumRuns

\* ---------------------------------------------------------------- values
\* fp-ts Option and Either, as tagged records.
None == [tag |-> "None"]
Some(v) == [tag |-> "Some", value |-> v]
Left(e) == [tag |-> "Left", left |-> e]
Right(a) == [tag |-> "Right", right |-> a]

\* A future that has not resolved (yet), a task that was never created, and a
\* task whose promise never settles.
Pending == [tag |-> "Pending"]
NoTask == [tag |-> "NoTask"]
Never == [tag |-> "Never"]

\* O.flatten: Option<Option<A>> -> Option<A>.
OFlatten(mma) == IF mma.tag = "None" THEN None ELSE mma.value

\* The users a provider can hold: one per id, each with its own email.
EmailOf(i) == ((i - 1) % NumEmails) + 1
User(i) == [id |-> i, email |-> EmailOf(i), firstName |-> "first", lastName |-> "last"]
Users == {User(i) : i \in UserIds}

Account(a, o) == [accountId |-> a, ownerId |-> o]
Accounts == {Account(a, o) : a \in AccountIds, o \in UserIds}

\* Error instances: two instances are the same instance iff they are equal.
UserServiceError(i) == [class |-> "UserServiceError", id |-> i]
AccountServiceError(i) == [class |-> "AccountServiceError", id |-> i]
UserServiceErrors == {UserServiceError(i) : i \in 1..NumErrors}
AccountServiceErrors == {AccountServiceError(i) : i \in 1..NumErrors}

\* What the TaskEither returned by a collaborator can come to.
UserOutcomes ==
    {Left(e) : e \in UserServiceErrors} \cup {Right(None)}
        \cup {Right(Some(u)) : u \in Users} \cup {Never}
AccountOutcomes ==
    {Left(e) : e \in AccountServiceErrors} \cup {Right(None)}
        \cup {Right(Some(a)) : a \in Accounts} \cup {Never}

\* ---------------------------------------------------------------- services
\* The per-module unique symbols that key each capability.
UserServiceSymbol == "Symbol(UserService)"
\* Mutant: the account service keyed by a symbol shared with the user service
\* (a registry symbol or a plain key instead of a fresh Symbol()).
AccountServiceSymbol_shared == UserServiceSymbol
AccountServiceSymbol == "Symbol(AccountService)"
LoggingServiceSymbol == "Symbol(LoggingService)"

\* JavaScript's undefined, and the operations handed to the factories.
Undefined == [fn |-> "undefined"]
getUserByEmailSpy == [fn |-> "getUserByEmailSpy"]
getAccountByOwnerIdSpy == [fn |-> "getAccountByOwnerIdSpy"]
mockLog == [fn |-> "mockLog"]

UserDefinition == [getUserByEmail |-> getUserByEmailSpy]
AccountDefinition == [getAccountByOwnerId |-> getAccountByOwnerIdSpy]
LoggingDefinition == [log |-> mockLog]

\* The factories: ({ [Symbol]: definition }).
createUserService(definition) == UserServiceSymbol :> definition
createAccountService(definition) == AccountServiceSymbol :> definition
createLoggingService(definition) == LoggingServiceSymbol :> definition

\* Object spread { ...a, ...b }: the later bundle wins on a shared key.
Spread(a, b) ==
    [k \in DOMAIN a \cup DOMAIN b |-> IF k \in DOMAIN b THEN b[k] ELSE a[k]]

RECURSIVE SpreadAll(_)
SpreadAll(bundles) ==
    IF Len(bundles) = 1 THEN bundles[1]
    ELSE Spread(SpreadAll(SubSeq(bundles, 1, Len(bundles) - 1)), bundles[Len(bundles)])

\* An extra, non-service property of the environment ({ ..., db: mockDb }).
DbProperty == "db" :> [get |-> [fn |-> "dbSpy"]]

ServiceBundles ==
    <<createUserService(UserDefinition),
      createAccountService(AccountDefinition),
      createLoggingService(LoggingDefinition)>>

\* The environment of the orchestration's own test and of main: the account
\* bundle and the user bundle, spread in either order.
OrchestrationEnvironments ==
    {Spread(createAccountService(AccountDefinition), createUserService(UserDefinition)),
     Spread(createUserService(UserDefinition), createAccountService(AccountDefinition))}

\* Every order in which the composition root can spread the bundles, with or
\* without the extra property.
MergeOrders ==
    {p \in [1..3 -> 1..3] : \A i, j \in 1..3 : p[i] = p[j] => i = j}
        \cup {p \in [1..4 -> 1..4] : \A i, j \in 1..4 : p[i] = p[j] => i = j}

BundlesIn(p) ==
    [i \in DOMAIN p |-> IF p[i] = 4 THEN DbProperty ELSE ServiceBundles[p[i]]]

Environments == {SpreadAll(BundlesIn(p)) : p \in MergeOrders}

\* Property read obj[k]: undefined when the key is absent.
Prop(obj, k) == IF k \in DOMAIN obj THEN obj[k] ELSE Undefined

\* service[Symbol].operation, as the accessors read it.
ResolveOp(service, symbol, operation) ==
    IF Prop(service, symbol) = Undefined THEN Undefined
    ELSE Prop(Prop(service, symbol), operation)

\* ---------------------------------------------------------------- state
VARIABLES
    env,        \* the environment object the composition root assembled
    pure,       \* whether the collaborators are pure functions of their input
    userTable,  \* what the user operation has answered, per email (pure only)
    acctTable,  \* what the account operation has answered, per owner id
    pc,         \* per invocation: where it stands
    email,      \* per invocation: the email it was called with
    userTask,   \* per invocation: the task the user operation returned
    userOut,    \* per invocation: what that task resolved to
    acctTask,   \* per invocation: the task the account operation returned
    acctOut,    \* per invocation: what that task resolved to
    result,     \* per invocation: what getAccountByUserEmail resolved to
    calls,      \* per invocation: the collaborator calls it made, in order
    logCalls,   \* the calls made through the log accessor
    provider,   \* the user provider a direct lookup is made against
    lookupPc,   \* where the provider's getUserByEmail stands
    lookupEmail,    \* the email it was called with
    logSpy,     \* the calls the provider made to the log operation, in order
    logTask,    \* what the log task now awaited resolves to
    dbSpy,      \* the calls the provider made to db.get, in order
    dbReply,    \* how db.get answers the call in flight
    decodeSpy,  \* the values User.decode was applied to, in order
    lookupResult    \* what the provider's getUserByEmail resolved to

\* The state of a lookup made directly against a user provider.
providerVars ==
    <<provider, lookupPc, lookupEmail, logSpy, logTask, dbSpy, dbReply,
      decodeSpy, lookupResult>>

vars ==
    <<env, pure, userTable, acctTable, pc, email, userTask, userOut,
      acctTask, acctOut, result, calls, logCalls, providerVars>>

Unknown == [tag |-> "Unknown"]

\* No lookup is made directly against a provider.
NoProvider ==
    /\ provider = "none"
    /\ lookupPc = "idle"
    /\ lookupEmail = 0
    /\ logSpy = <<>>
    /\ logTask = NoTask
    /\ dbSpy = <<>>
    /\ dbReply = NoTask
    /\ decodeSpy = <<>>
    /\ lookupResult = Pending

Init ==
    /\ env \in OrchestrationEnvironments
    /\ pure \in BOOLEAN
    /\ userTable = [e \in Emails |-> Unknown]
    /\ acctTable = [i \in UserIds |-> Unknown]
    /\ pc = [r \in Runs |-> "idle"]
    /\ email = [r \in Runs |-> 0]
    /\ userTask = [r \in Runs |-> NoTask]
    /\ userOut = [r \in Runs |-> Pending]
    /\ acctTask = [r \in Runs |-> NoTask]
    /\ acctOut = [r \in Runs |-> Pending]
    /\ result = [r \in Runs |-> Pending]
    /\ calls = [r \in Runs |-> <<>>]
    /\ logCalls = {}
    /\ NoProvider

\* ---------------------------------------------------------------- collaborators
\* The tasks an operation may return for input x: a pure collaborator answers
\* an input it has seen before as it did then.
Returns(table, x, outcomes) ==
    IF pure /\ table[x] # Unknown THEN {table[x]} ELSE outcomes

Remember(table, x, t) == IF pure THEN [table EXCEPT ![x] = t] ELSE table

CallOf(accessor, op, arg) == [accessor |-> accessor, op |-> op, arg |-> arg]

CallsBy(r, accessor) == SelectSeq(calls[r], LAMBDA c : c.accessor = accessor)

\* ---------------------------------------------------------------- orchestration
\* What the caller is doing with the other invocations lets this one start:
\* invocations are made one after the other.
MayStart(r) ==
    /\ \A q \in Runs : q < r => pc[q] \in {"done", "threw"}
    /\ \A q \in Runs : q > r => pc[q] = "idle"

\* Mutant: the reader invokes the user operation twice.
SupplyCalls_twice(e, op) ==
    <<CallOf("getUserByEmail", op, e), CallOf("getUserByEmail", op, e)>>
\* Mutant: the account lookup is begun alongside the user lookup instead of
\* after it.
SupplyCalls_eager(e, op) ==
    <<CallOf("getUserByEmail", op, e),
      CallOf("getAccountByOwnerId",
             ResolveOp(env, AccountServiceSymbol, "getAccountByOwnerId"), 1)>>
\* The collaborator calls made when the reader is applied to the environment:
\* RTE.flatMap(ma, f) is (r) => pipe(ma(r), TE.flatMap(a => f(a)(r))), and
\* ma(r) is service[UserServiceSymbol].getUserByEmail(email).
SupplyCalls(e, op) == <<CallOf("getUserByEmail", op, e)>>

\* Mutant: building the effect already invokes the user operation.
Call_eager(r, e) ==
    /\ pc[r] = "idle"
    /\ MayStart(r)
    /\ pc' = [pc EXCEPT ![r] = "built"]
    /\ email' = [email EXCEPT ![r] = e]
    /\ calls' = [calls EXCEPT ![r] =
            SupplyCalls(e, ResolveOp(env, UserServiceSymbol, "getUserByEmail"))]
    /\ UNCHANGED <<env, pure, userTable, acctTable, userTask, userOut,
                   acctTask, acctOut, result, logCalls,
                   providerVars>>
\* getAccountByUserEmail(email): flow(getUserByEmail, RTE.flatMap(...)) builds
\* the reader; the accessor getUserByEmail(email) only closes over the email.
Call(r, e) ==
    /\ pc[r] = "idle"
    /\ MayStart(r)
    /\ pc' = [pc EXCEPT ![r] = "built"]
    /\ email' = [email EXCEPT ![r] = e]
    /\ UNCHANGED <<env, pure, userTable, acctTable, userTask, userOut,
                   acctTask, acctOut, result, calls, logCalls,
                   providerVars>>

\* Mutant: a module-level cache replays the task an earlier invocation got
\* for the same email instead of asking the user service again.
Supply_cached(r) ==
    /\ pc[r] = "built"
    /\ LET op == ResolveOp(env, UserServiceSymbol, "getUserByEmail")
           hits == {q \in Runs : q # r /\ email[q] = email[r] /\ userTask[q] # NoTask}
       IN
        IF hits # {}
        THEN /\ userTask' = [userTask EXCEPT ![r] = userTask[CHOOSE q \in hits : TRUE]]
             /\ pc' = [pc EXCEPT ![r] = "supplied"]
             /\ UNCHANGED <<calls, userTable>>
        ELSE /\ calls' = [calls EXCEPT ![r] = calls[r] \o SupplyCalls(email[r], op)]
             /\ \E t \in Returns(userTable, email[r], UserOutcomes) :
                    /\ userTask' = [userTask EXCEPT ![r] = t]
                    /\ userTable' = Remember(userTable, email[r], t)
                    /\ pc' = [pc EXCEPT ![r] = "supplied"]
    /\ UNCHANGED <<env, pure, acctTable, email, userOut, acctTask, acctOut,
                   result, logCalls,
                   providerVars>>
\* getAccountByUserEmail(email)(env): the reader applied to the environment.
Supply(r) ==
    /\ pc[r] = "built"
    /\ LET op == ResolveOp(env, UserServiceSymbol, "getUserByEmail") IN
        /\ calls' = [calls EXCEPT ![r] = calls[r] \o SupplyCalls(email[r], op)]
        /\ IF op # Undefined
           THEN \E t \in Returns(userTable, email[r], UserOutcomes) :
                    /\ userTask' = [userTask EXCEPT ![r] = t]
                    /\ userTable' = Remember(userTable, email[r], t)
                    /\ pc' = [pc EXCEPT ![r] = "supplied"]
           ELSE \* calling undefined throws a TypeError
                /\ pc' = [pc EXCEPT ![r] = "threw"]
                /\ UNCHANGED <<userTask, userTable>>
    /\ UNCHANGED <<env, pure, acctTable, email, userOut, acctTask, acctOut,
                   result, logCalls,
                   providerVars>>

\* Mutant: running the task records the invocation on the environment
\* object.
Run_marksEnv(r) ==
    /\ pc[r] = "supplied"
    /\ pc' = [pc EXCEPT ![r] = "userRunning"]
    /\ env' = Spread(env, "running" :> [email |-> email[r]])
    /\ UNCHANGED <<pure, userTable, acctTable, email, userTask, userOut,
                   acctTask, acctOut, result, calls, logCalls, providerVars>>
\* getAccountByUserEmail(email)(env)(): the task is run, which starts the
\* user lookup's task.
Run(r) ==
    /\ pc[r] = "supplied"
    /\ pc' = [pc EXCEPT ![r] = "userRunning"]
    /\ UNCHANGED <<env, pure, userTable, acctTable, email, userTask, userOut,
                   acctTask, acctOut, result, calls, logCalls,
                   providerVars>>

\* Mutant: the lookup continues with a default owner id instead of the found
\* user's.
Continue_defaultOwner(ue) ==
    IF ue.tag = "Left" THEN [kind |-> "settle", value |-> Left(ue.left)]
    ELSE IF ue.right.tag = "None"
         THEN [kind |-> "settle", value |-> Right(None)]
         ELSE [kind |-> "lookup", ownerId |-> 1]
\* Mutant: an absent user does not short-circuit; the account lookup is run
\* with a default owner id.
Continue_lookupAnyway(ue) ==
    IF ue.tag = "Left" THEN [kind |-> "settle", value |-> Left(ue.left)]
    ELSE IF ue.right.tag = "None"
         THEN [kind |-> "lookup", ownerId |-> 1]
         ELSE [kind |-> "lookup", ownerId |-> ue.right.value.id]
\* Mutant: a user service failure is replaced by a fresh, generic error.
Continue_replaceError(ue) ==
    IF ue.tag = "Left"
    THEN [kind |-> "settle", value |-> Left([class |-> "Error", id |-> ue.left.id])]
    ELSE IF ue.right.tag = "None"
         THEN [kind |-> "settle", value |-> Right(OFlatten(None))]
         ELSE [kind |-> "lookup", ownerId |-> ue.right.value.id]
\* RTE.flatMap(flow(O.traverse(RTE.ApplicativePar)(({ id }) =>
\* getAccountByOwnerId(id)), RTE.map(O.flatten))) applied to what the user
\* lookup resolved to: a failure passes through, an absent user is
\* RTE.of(none) mapped by O.flatten, a present user leads to the account
\* lookup with that user's id.
Continue(ue) ==
    IF ue.tag = "Left" THEN [kind |-> "settle", value |-> Left(ue.left)]
    ELSE IF ue.right.tag = "None"
         THEN [kind |-> "settle", value |-> Right(OFlatten(None))]
         ELSE [kind |-> "lookup", ownerId |-> ue.right.value.id]

\* Mutant: a lookup that does not resolve is given up on and reported as a
\* failure.
Awaited_timeout(task) ==
    IF task = Never THEN {Left([class |-> "TimeoutError", id |-> 0])} ELSE {task}
\* Mutant: the continuation is never run, whatever the promise does.
Awaited_lost(task) == {}
\* Mutant: the continuation is run without waiting for the task.
Awaited_fireAndForget(task) == {task}
\* What the continuation chained on a task's promise can be handed: the value
\* the promise resolves to, and nothing when it never resolves; flatMap
\* chains with then() alone, without a timer or a cancellation signal.
Awaited(task) == IF task = Never THEN {} ELSE {task}

\* Mutant: the found user is kept in a variable shared by all invocations,
\* so the continuation may see the user another invocation found.
Found_shared(r, out) ==
    LET others == {q \in Runs : q # r /\ userOut[q] \notin {Pending, Never}
                                /\ userOut[q].tag = "Right"
                                /\ userOut[q].right.tag = "Some"}
    IN IF others # {} /\ out.tag = "Right" /\ out.right.tag = "Some"
       THEN userOut[CHOOSE q \in others : TRUE]
       ELSE out
\* What the continuation of invocation r works on: the value its own user
\* lookup resolved to, bound as the argument of the function given to
\* flatMap; nothing is kept outside the closures of the invocation.
Found(r, out) == out

\* The user lookup's task resolves and the continuation of flatMap runs.
UserResolve(r) ==
    /\ pc[r] = "userRunning"
    /\ \E out \in Awaited(userTask[r]) :
      /\ userOut' = [userOut EXCEPT ![r] = out]
      /\ LET next == Continue(Found(r, out)) IN
        IF next.kind = "settle"
        THEN /\ result' = [result EXCEPT ![r] = next.value]
             /\ pc' = [pc EXCEPT ![r] = "done"]
             /\ UNCHANGED <<acctTask, acctTable, calls>>
        ELSE LET op == ResolveOp(env, AccountServiceSymbol, "getAccountByOwnerId") IN
             /\ calls' = [calls EXCEPT ![r] =
                    Append(calls[r], CallOf("getAccountByOwnerId", op, next.ownerId))]
             /\ IF op # Undefined
                THEN \E t \in Returns(acctTable, next.ownerId, AccountOutcomes) :
                        /\ acctTask' = [acctTask EXCEPT ![r] = t]
                        /\ acctTable' = Remember(acctTable, next.ownerId, t)
                        /\ pc' = [pc EXCEPT ![r] = "acctRunning"]
                ELSE /\ pc' = [pc EXCEPT ![r] = "threw"]
                     /\ UNCHANGED <<acctTask, acctTable>>
             /\ UNCHANGED result
    /\ UNCHANGED <<env, pure, userTable, email, userTask, acctOut, logCalls,
                   providerVars>>

\* Mutant: RTE.map(O.flatten) is left out, the account stays doubly wrapped.
AccountContinue_noFlatten(ae) ==
    IF ae.tag = "Left" THEN Left(ae.left)
    ELSE Right(Some(ae.right))
\* Mutant: an absent account of a present user is reported as a failure.
AccountContinue_absentIsFailure(ae) ==
    IF ae.tag = "Left" THEN Left(ae.left)
    ELSE IF ae.right.tag = "None" THEN Left(AccountServiceError(0))
         ELSE Right(OFlatten(Some(ae.right)))
\* Mutant: an account service failure is recovered into an absent account.
AccountContinue_recover(ae) ==
    IF ae.tag = "Left" THEN Right(None)
    ELSE Right(OFlatten(Some(ae.right)))
\* O.traverse's F.map(f(a), some) followed by RTE.map(O.flatten), applied to
\* what the account lookup resolved to.
AccountContinue(ae) ==
    IF ae.tag = "Left" THEN Left(ae.left)
    ELSE Right(OFlatten(Some(ae.right)))

\* The account lookup's task resolves and the orchestration settles.
AccountResolve(r) ==
    /\ pc[r] = "acctRunning"
    /\ \E out \in Awaited(acctTask[r]) :
        /\ acctOut' = [acctOut EXCEPT ![r] = out]
        /\ result' = [result EXCEPT ![r] = AccountContinue(out)]
    /\ pc' = [pc EXCEPT ![r] = "done"]
    /\ UNCHANGED <<env, pure, userTable, acctTable, email, userTask, userOut,
                   acctTask, calls, logCalls,
                   providerVars>>

\* log(message)(env)(): pipe(message, service[LoggingServiceSymbol].log,
\* TE.fromTask), run by whoever holds the logging capability.
Log(m) ==
    /\ CallOf("log", ResolveOp(env, LoggingServiceSymbol, "log"), m) \notin logCalls
    /\ logCalls' = logCalls \cup
            {CallOf("log", ResolveOp(env, LoggingServiceSymbol, "log"), m)}
    /\ UNCHANGED <<env, pure, userTable, acctTable, pc, email, userTask,
                   userOut, acctTask, acctOut, result, calls, providerVars>>

Next ==
    \/ \E r \in Runs, e \in Emails : Call(r, e)
    \/ \E r \in Runs : Supply(r)
    \/ \E r \in Runs : Run(r)
    \/ \E r \in Runs : UserResolve(r)
    \/ \E r \in Runs : AccountResolve(r)

Spec == Init /\ [][Next]_vars

\* The collaborators of getTestMocks: the user spy answers every email with
\* the user testUserId1, the account spy answers every owner id with the
\* account owned by testUserId2.
testUserId1 == 1
testUserId2 == NumUserIds
testAccountId == 1

\* An environment holding all three services, spread in any order, with the
\* test's collaborators; the logging capability is exercised as well.
InitMerged ==
    /\ env \in Environments
    /\ pure = TRUE
    /\ userTable = [e \in Emails |-> Right(Some(User(testUserId1)))]
    /\ acctTable = [i \in UserIds |-> Right(Some(Account(testAccountId, testUserId2)))]
    /\ pc = [r \in Runs |-> "idle"]
    /\ email = [r \in Runs |-> 0]
    /\ userTask = [r \in Runs |-> NoTask]
    /\ userOut = [r \in Runs |-> Pending]
    /\ acctTask = [r \in Runs |-> NoTask]
    /\ acctOut = [r \in Runs |-> Pending]
    /\ result = [r \in Runs |-> Pending]
    /\ calls = [r \in Runs |-> <<>>]
    /\ logCalls = {}
    /\ NoProvider

NextMerged ==
    \/ Next
    \/ \E m \in Messages : Log(m)

SpecMerged == InitMerged /\ [][NextMerged]_vars

\* ---------------------------------------------------------------- coexistence
\* Further implementations handed to the same factories: the hardcoded account
\* provider beside the mock one, the pino and the console logging providers.
HardcodedAccountDefinition ==
    [getAccountByOwnerId |-> [fn |-> "HardcodedAccountProvider.getAccountByOwnerId"]]
PinoLoggingDefinition == [log |-> [fn |-> "PinoLoggingProvider.log"]]
ConsoleLoggingDefinition == [log |-> [fn |-> "ConsoleLoggingProvider.log"]]

CoexistBundles ==
    <<createUserService(UserDefinition),
      createAccountService(AccountDefinition),
      createAccountService(HardcodedAccountDefinition),
      createLoggingService(PinoLoggingDefinition),
      createLoggingService(ConsoleLoggingDefinition)>>

\* One environment object made of all of them, spread in any order.
CoexistEnvironments ==
    {SpreadAll([i \in DOMAIN CoexistBundles |-> CoexistBundles[p[i]]]) :
        p \in Permutations(DOMAIN CoexistBundles)}

InitCoexist ==
    /\ env \in CoexistEnvironments
    /\ pure = TRUE
    /\ userTable = [e \in Emails |-> Right(Some(User(testUserId1)))]
    /\ acctTable = [i \in UserIds |-> Right(Some(Account(testAccountId, testUserId2)))]
    /\ pc = [r \in Runs |-> "idle"]
    /\ email = [r \in Runs |-> 0]
    /\ userTask = [r \in Runs |-> NoTask]
    /\ userOut = [r \in Runs |-> Pending]
    /\ acctTask = [r \in Runs |-> NoTask]
    /\ acctOut = [r \in Runs |-> Pending]
    /\ result = [r \in Runs |-> Pending]
    /\ calls = [r \in Runs |-> <<>>]
    /\ logCalls = {}
    /\ NoProvider

SpecCoexist == InitCoexist /\ [][NextMerged]_vars

\* ---------------------------------------------------------------- domain errors
\* The JavaScript values that reach a DomainError constructor or come back
\* from db.get, by kind.
ErrorInstance(i) == [kind |-> "Error", id |-> i]
JsUndefined == [kind |-> "undefined"]
JsNull == [kind |-> "null"]
JsString == [kind |-> "string"]
JsNumber == [kind |-> "number"]
PlainObject == [kind |-> "object"]
CircularObject == [kind |-> "circular"]
\* io-ts Errors: an array of n ValidationError objects.
ValidationErrors(n) == [kind |-> "array", len |-> n]

\* A row db.get hands back: an object whose four columns hold a string that
\* is a UUID, another string, a number, or nothing.
ColumnValues == {"uuid", "string", "number", "undefined"}
Rows ==
    {[kind |-> "row", firstName |-> f, lastName |-> l, id |-> i, email |-> m] :
        f \in ColumnValues \ {"uuid"}, l \in ColumnValues \ {"uuid"},
        i \in ColumnValues, m \in ColumnValues \ {"uuid"}}

\* The values of the payload types a DomainError may be constructed from.
Payloads ==
    {ErrorInstance(i) : i \in 1..NumErrors}
        \cup {PlainObject, CircularObject, JsString, JsNumber, JsNull, JsUndefined}
        \cup {ValidationErrors(n) : n \in 0..4}

\* A string, named by how it was rendered and from what.
Rendered(how, v) == [text |-> how, of |-> v]
IsString(x) == "text" \in DOMAIN x

\* Object.prototype.toString(): "[object Object]".
ObjectPrototypeToString == [text |-> "[object Object]"]

\* Truthiness and typeof; typeof null is "object".
Truthy(v) == v.kind \notin {"undefined", "null"}
TypeOf(v) ==
    IF v.kind \in {"undefined", "string", "number"} THEN v.kind ELSE "object"

\* data.toString(): Error.prototype.toString gives "Error: <message>",
\* Array.prototype.toString joins the elements' renderings with commas (one
\* plain element alone renders as "[object Object]"), any other object
\* inherits Object.prototype.toString.
NativeToString(v) ==
    IF v.kind = "Error" THEN Rendered("Error.prototype.toString", v)
    ELSE IF v.kind = "array" /\ v.len # 1 THEN Rendered("Array.prototype.join", v)
    ELSE ObjectPrototypeToString

\* JSON.stringify(data, null, 2): throws on a circular structure and returns
\* undefined, not a string, for undefined.
JsonThrows(v) == v.kind = "circular"
JsonStringify(v) ==
    IF v.kind = "undefined" THEN JsUndefined ELSE Rendered("JSON.stringify", v)
UtilInspect(v) == Rendered("util.inspect", v)

\* DomainError.safeStringify.
safeStringify(data) ==
    IF /\ Truthy(data)
       /\ TypeOf(data) = "object"
       /\ NativeToString(data) # ObjectPrototypeToString
    THEN NativeToString(data)
    ELSE IF JsonThrows(data) THEN UtilInspect(data) ELSE JsonStringify(data)

\* new DomainError subtype(data): the instance keeps the rendered message.
DomainError(class, data) == [class |-> class, message |-> safeStringify(data)]
UserServiceDbQueryError(e) == DomainError("UserServiceDbQueryError", e)
UserServiceInvalidDataError(e) == DomainError("UserServiceInvalidDataError", e)

\* ---------------------------------------------------------------- codecs
\* t.string, UUID (a string in UUID format) and the newtype codecs over them.
tString(v) == v \in {"string", "uuid"}
UUID(v) == v = "uuid"
UserIdCodec(v) == UUID(v)
EmailCodec(v) == tString(v)

\* The columns of a row that fail User = t.type({ firstName: t.string,
\* lastName: t.string, id: UserId, email: Email }).
UserDecodeFailures(u) ==
    {c \in {"firstName", "lastName", "id", "email"} :
        \/ c = "firstName" /\ ~tString(u.firstName)
        \/ c = "lastName" /\ ~tString(u.lastName)
        \/ c = "id" /\ ~UserIdCodec(u.id)
        \/ c = "email" /\ ~EmailCodec(u.email)}

\* Mutant: the id column is only required to be a string.
UserDecode_idAnyString(u) ==
    IF u.kind # "row" THEN Left(ValidationErrors(1))
    ELSE IF UserDecodeFailures(u) \ (IF tString(u.id) THEN {"id"} ELSE {}) = {}
         THEN Right(u)
         ELSE Left(ValidationErrors(Cardinality(UserDecodeFailures(u))))
\* User.decode: the value itself when every column validates, otherwise one
\* validation error per failing column (one for a value that is no object).
UserDecode(u) ==
    IF u.kind # "row" THEN Left(ValidationErrors(1))
    ELSE IF UserDecodeFailures(u) = {} THEN Right(u)
         ELSE Left(ValidationErrors(Cardinality(UserDecodeFailures(u))))
\* ---------------------------------------------------------------- user providers
\* The hardcoded user database: the one email it knows and the user it holds.
ekentEmail == 1
ekentId == 1
HardcodedUserDb == ekentEmail :> User(ekentId)

\* Mutant: a key that is not in the record falls back to the stored user.
RRLookup_fallback(k, r) ==
    IF k \in DOMAIN r THEN Some(r[k]) ELSE Some(r[CHOOSE j \in DOMAIN r : TRUE])
\* RR.lookup(k)(r): has.call(r, k) ? some(r[k]) : none.
RRLookup(k, r) == IF k \in DOMAIN r THEN Some(r[k]) ELSE None

\* The messages the providers log: a literal followed by the interpolated
\* value (the email between backticks, the JSON rendering of the option).
LookingUp(m) == [literal |-> "Looking up email ", email |-> m]
ResultMessage(u) == [literal |-> "Result: ", value |-> u]
PreparingToQuery(e) == [literal |-> "Preparing to query for ", email |-> e]

\* What the task returned by the log operation resolves to: nothing, some
\* value (the contract is Task<void>, the value is the implementation's
\* business), or never.
LogOutcomes == {JsUndefined, JsString, Never}

\* The environment each provider is created with: the mock logging service,
\* and for the database provider the db handle beside it.
ProviderDeps(p) ==
    IF p = "db" THEN Spread(createLoggingService(LoggingDefinition), DbProperty)
    ELSE createLoggingService(LoggingDefinition)

\* The query of getUserByEmail and its parameters.
SelectByEmail == "SELECT * FROM users WHERE email = ?"
\* Mutant: the email is written into the query text.
DbCall_concatenated(e) ==
    [query |-> "SELECT * FROM users WHERE email = '${email}'", param |-> <<>>]
DbCall(e) == [query |-> SelectByEmail, param |-> <<e>>]

\* How db.get can answer: the callback is given an error, or no error and a
\* row (or null, or undefined, or a value that is no row), or db.get throws
\* some value, or the callback is never invoked.
DbReplies ==
    {[via |-> "callback", err |-> ErrorInstance(i), row |-> JsNull] : i \in 1..NumErrors}
        \cup {[via |-> "callback", err |-> JsNull, row |-> w] :
                w \in Rows \cup {JsNull, JsUndefined, JsNumber}}
        \cup {[via |-> "throw", err |-> v, row |-> JsUndefined] :
                v \in {p \in Payloads : p.kind # "array"}}
        \cup {Never}

\* taskifiedGet: the promise rejects with err when the callback is given a
\* truthy err or when db.get throws inside the executor, and resolves with
\* the row otherwise; TE.tryCatch(..., identity) turns that into an Either.
taskifiedGet(reply) ==
    IF reply.via = "throw" \/ Truthy(reply.err) THEN Left(reply.err)
    ELSE Right(reply.row)

\* Mutant: only null counts as no row.
OFromNullable_nullOnly(a) == IF a.kind = "null" THEN None ELSE Some(a)
\* O.fromNullable.
OFromNullable(a) == IF a.kind \in {"null", "undefined"} THEN None ELSE Some(a)

\* Mutant: the query failure is constructed without the error it came from.
QueryFailed_noContext(e) == UserServiceDbQueryError(JsUndefined)
\* The left side of RTE.bimap: (e) => new UserServiceDbQueryError(e).
QueryFailed(e) == UserServiceDbQueryError(e)

\* RTE.bimap((e) => new UserServiceDbQueryError(e), O.fromNullable).
Bimapped(q) ==
    IF q.tag = "Left" THEN Left(QueryFailed(q.left))
    ELSE Right(OFromNullable(q.right))

\* The values User.decode is applied to by RTE.flatMapEither(O.traverse(
\* E.Applicative)(flow(User.decode, E.mapLeft(...)))): the row, when the
\* query succeeded with one.
Decoded(b) ==
    IF b.tag = "Right" /\ b.right.tag = "Some" THEN <<b.right.value>> ELSE <<>>

\* ... and what it makes of the bimapped result.
Validated(b) ==
    IF b.tag = "Left" THEN b
    ELSE IF b.right.tag = "None" THEN Right(None)
    ELSE LET d == UserDecode(b.right.value) IN
         IF d.tag = "Left" THEN Left(UserServiceInvalidDataError(d.left))
         ELSE Right(Some(d.right))
\* The state of the orchestration, which a direct lookup leaves alone.
orchestrationVars ==
    <<pure, userTable, acctTable, pc, email, userTask, userOut, acctTask,
      acctOut, result, calls, logCalls>>

LogCall(m) == CallOf("log", ResolveOp(env, LoggingServiceSymbol, "log"), m)

\* getUserByEmail(email)(provider): the accessor invokes the provider's
\* operation, (email) => getUserByEmail(email)(deps). The database provider's
\* pipeline starts from log(...), whose reader invokes the log operation as
\* soon as deps is applied; the hardcoded provider's starts from RTE.of.
LookupCall(e) ==
    /\ provider # "none"
    /\ lookupPc = "idle"
    /\ lookupEmail' = e
    /\ lookupPc' = "called"
    /\ IF provider = "db"
       THEN /\ logSpy' = Append(logSpy, LogCall(PreparingToQuery(e)))
            /\ logTask' \in LogOutcomes
       ELSE UNCHANGED <<logSpy, logTask>>
    /\ UNCHANGED <<env, orchestrationVars, provider, dbSpy, dbReply, decodeSpy,
                   lookupResult>>

\* The task is run. The database provider awaits the log task; the hardcoded
\* provider's first tap invokes the log operation and awaits its task.
LookupRun ==
    /\ lookupPc = "called"
    /\ IF provider = "db"
       THEN /\ lookupPc' = "preparing"
            /\ UNCHANGED <<logSpy, logTask>>
       ELSE /\ lookupPc' = "lookingUp"
            /\ logSpy' = Append(logSpy, LogCall(LookingUp(lookupEmail)))
            /\ logTask' \in LogOutcomes
    /\ UNCHANGED <<env, orchestrationVars, provider, lookupEmail, dbSpy,
                   dbReply, decodeSpy, lookupResult>>

\* The awaited log task resolves; what it resolves to is dropped (RTE.tap,
\* and RTE.flatMap(() => ...) in the database provider).
LogResolved ==
    /\ lookupPc \in {"preparing", "lookingUp", "reporting"}
    /\ \E out \in Awaited(logTask) :
        CASE lookupPc = "preparing" ->
                \* taskifiedGet(query, [email])({ db }) and its promise
                /\ dbSpy' = Append(dbSpy, DbCall(lookupEmail))
                /\ dbReply' \in DbReplies
                /\ lookupPc' = "querying"
                /\ UNCHANGED <<logSpy, logTask, lookupResult>>
          [] lookupPc = "lookingUp" ->
                \* RTE.map(lookup), then the second tap
                /\ logSpy' = Append(logSpy,
                        LogCall(ResultMessage(RRLookup(lookupEmail, HardcodedUserDb))))
                /\ logTask' \in LogOutcomes
                /\ lookupPc' = "reporting"
                /\ UNCHANGED <<dbSpy, dbReply, lookupResult>>
          [] lookupPc = "reporting" ->
                /\ lookupResult' = Right(RRLookup(lookupEmail, HardcodedUserDb))
                /\ lookupPc' = "done"
                /\ UNCHANGED <<logSpy, logTask, dbSpy, dbReply>>
    /\ UNCHANGED <<env, orchestrationVars, provider, lookupEmail, decodeSpy>>

\* db.get has answered (or thrown): the rest of the pipeline runs.
DbAnswers ==
    /\ lookupPc = "querying"
    /\ dbReply # Never
    /\ LET b == Bimapped(taskifiedGet(dbReply)) IN
        /\ decodeSpy' = decodeSpy \o Decoded(b)
        /\ lookupResult' = Validated(b)
    /\ lookupPc' = "done"
    /\ UNCHANGED <<env, orchestrationVars, provider, lookupEmail, logSpy,
                   logTask, dbSpy, dbReply>>

\* A lookup made directly against the hardcoded or the database provider,
\* as the providers' tests make it.
InitProvider ==
    /\ provider \in {"hardcoded", "db"}
    /\ env = ProviderDeps(provider)
    /\ pure = TRUE
    /\ userTable = [e \in Emails |-> Unknown]
    /\ acctTable = [i \in UserIds |-> Unknown]
    /\ pc = [r \in Runs |-> "idle"]
    /\ email = [r \in Runs |-> 0]
    /\ userTask = [r \in Runs |-> NoTask]
    /\ userOut = [r \in Runs |-> Pending]
    /\ acctTask = [r \in Runs |-> NoTask]
    /\ acctOut = [r \in Runs |-> Pending]
    /\ result = [r \in Runs |-> Pending]
    /\ calls = [r \in Runs |-> <<>>]
    /\ logCalls = {}
    /\ lookupPc = "idle"
    /\ lookupEmail = 0
    /\ logSpy = <<>>
    /\ logTask = NoTask
    /\ dbSpy = <<>>
    /\ dbReply = NoTask
    /\ decodeSpy = <<>>
    /\ lookupResult = Pending

NextProvider ==
    \/ \E e \in Emails : LookupCall(e)
    \/ LookupRun
    \/ LogResolved
    \/ DbAnswers

SpecProvider == InitProvider /\ [][NextProvider]_vars

\* ---------------------------------------------------------------- interleaving
\* The two invocations whose steps interleave.
Interleaved == {1, 2}

\* getAccountByUserEmail(email), called whatever the other invocation is
\* doing.
CallInterleaved(r, e) ==
    /\ r \in Interleaved
    /\ pc[r] = "idle"
    /\ pc' = [pc EXCEPT ![r] = "built"]
    /\ email' = [email EXCEPT ![r] = e]
    /\ UNCHANGED <<env, pure, userTable, acctTable, userTask, userOut,
                   acctTask, acctOut, result, calls, logCalls, providerVars>>

NextInterleaved ==
    \/ \E r \in Runs, e \in Emails : CallInterleaved(r, e)
    \/ \E r \in Runs : Supply(r)
    \/ \E r \in Runs : Run(r)
    \/ \E r \in Runs : UserResolve(r)
    \/ \E r \in Runs : AccountResolve(r)

SpecInterleaved == Init /\ [][NextInterleaved]_vars

\* ---------------------------------------------------------------- fairness
\* A promise that settles has its continuation run by the event loop: the
\* resolution steps of every invocation are weakly fair. Calling, supplying
\* the environment and running the task are up to the caller.
SpecFair ==
    /\ Init
    /\ [][NextInterleaved]_vars
    /\ \A r \in Runs : WF_vars(UserResolve(r)) /\ WF_vars(AccountResolve(r))

\* ---------------------------------------------------------------- hardcoded composition
\* The hardcoded account database: the one owner id it knows and the account
\* it holds for it.
hardcodedAccountId == 1
\* Mutant: the stored account belongs to another owner than its key.
HardcodedAccountDb_otherOwner == ekentId :> Account(hardcodedAccountId, NumUserIds)
HardcodedAccountDb == ekentId :> Account(hardcodedAccountId, ekentId)

HardcodedUserDefinition ==
    [getUserByEmail |-> [fn |-> "HardcodedUserProvider.getUserByEmail"]]

\* { ...createHardcodedUserProvider(logging), ...HardcodedAccountProvider }.
HardcodedEnvironment ==
    Spread(createUserService(HardcodedUserDefinition),
           createAccountService(HardcodedAccountDefinition))

\* What the hardcoded user provider's task comes to for an email: the lookup
\* in HardcodedUserDb, or nothing at all when the logging service's task
\* never resolves.
HardcodedUserOutcomes(e) == {Right(RRLookup(e, HardcodedUserDb)), Never}

\* HardcodedAccountProvider.getAccountByOwnerId: pipe(ownerId,
\* isoUserId.unwrap, (e) => RR.lookup(e)(HardcodedAccountDb), TE.of).
HardcodedAccountOutcome(i) == Right(RRLookup(i, HardcodedAccountDb))

InitHardcoded ==
    /\ env = HardcodedEnvironment
    /\ pure = TRUE
    /\ userTable \in {t \in [Emails -> UserOutcomes] :
                        \A e \in Emails : t[e] \in HardcodedUserOutcomes(e)}
    /\ acctTable = [i \in UserIds |-> HardcodedAccountOutcome(i)]
    /\ pc = [r \in Runs |-> "idle"]
    /\ email = [r \in Runs |-> 0]
    /\ userTask = [r \in Runs |-> NoTask]
    /\ userOut = [r \in Runs |-> Pending]
    /\ acctTask = [r \in Runs |-> NoTask]
    /\ acctOut = [r \in Runs |-> Pending]
    /\ result = [r \in Runs |-> Pending]
    /\ calls = [r \in Runs |-> <<>>]
    /\ logCalls = {}
    /\ NoProvider

SpecHardcoded == InitHardcoded /\ [][NextInterleaved]_vars

\* ---------------------------------------------------------------- properties
UserCalls(r) == CallsBy(r, "getUserByEmail")
AccountCalls(r) == CallsBy(r, "getAccountByOwnerId")

UserAbsent(r) == userOut[r] = Right(None)
UserFailed(r) == userOut[r].tag = "Left"
UserPresent(r) == userOut[r].tag = "Right" /\ userOut[r].right.tag = "Some"
AccountAbsent(r) == acctOut[r] = Right(None)
AccountFailed(r) == acctOut[r].tag = "Left"
AccountPresent(r) == acctOut[r].tag = "Right" /\ acctOut[r].right.tag = "Some"

\* C1: whenever the user lookup of a run succeeds with an absent user, the run
\* has succeeded with an absent account and getAccountByOwnerId was invoked
\* zero times during it.
C1_AbsentUserShortCircuits ==
    \A r \in Runs :
        UserAbsent(r) =>
            /\ pc[r] = "done"
            /\ result[r] = Right(None)
            /\ Len(AccountCalls(r)) = 0
            /\ acctTask[r] = NoTask

C1_Witness == \E r \in Runs : UserAbsent(r) /\ pc[r] = "done" /\ email[r] = NumEmails

\* C2: whenever the user lookup of a run resolves to a failure e, the run has
\* resolved to a failure carrying that same e, and getAccountByOwnerId was
\* invoked zero times during it.
C2_UserFailurePropagates ==
    \A r \in Runs :
        UserFailed(r) =>
            /\ pc[r] = "done"
            /\ result[r] = Left(userOut[r].left)
            /\ userOut[r].left \in UserServiceErrors
            /\ Len(AccountCalls(r)) = 0
            /\ acctTask[r] = NoTask

C2_Witness == \E r \in Runs : UserFailed(r) /\ result[r].tag = "Left"

\* C3: whenever the user lookup found a user and the account lookup succeeded
\* with a present account a, the run succeeds with exactly a wrapped present,
\* also when a.ownerId differs from the found user's id.
C3_AccountPassedThrough ==
    \A r \in Runs :
        (UserPresent(r) /\ AccountPresent(r)) =>
            /\ pc[r] = "done"
            /\ result[r] = Right(Some(acctOut[r].right.value))
            /\ result[r].right.value \in Accounts

C3_Witness ==
    \E r \in Runs :
        /\ UserPresent(r) /\ AccountPresent(r)
        /\ acctOut[r].right.value.ownerId # userOut[r].right.value.id
        /\ result[r] = Right(Some(acctOut[r].right.value))

\* C4: once the environment is supplied, a run has invoked the user service
\* operation exactly once, with exactly its input email; it has invoked the
\* account service operation at most once, and exactly once with u.id when
\* the user lookup yielded a present user u.
C4_CollaboratorCalls ==
    \A r \in Runs :
        /\ pc[r] \in {"idle", "built"} => calls[r] = <<>>
        /\ pc[r] \notin {"idle", "built"} =>
            UserCalls(r) = <<CallOf("getUserByEmail", getUserByEmailSpy, email[r])>>
        /\ Len(AccountCalls(r)) <= 1
        /\ UserPresent(r) =>
            AccountCalls(r) =
                <<CallOf("getAccountByOwnerId", getAccountByOwnerIdSpy,
                         userOut[r].right.value.id)>>
        /\ Len(calls[r]) = Len(UserCalls(r)) + Len(AccountCalls(r))

C4_Witness ==
    \E r \in Runs :
        /\ pc[r] = "done" /\ UserPresent(r)
        /\ Len(UserCalls(r)) = 1 /\ Len(AccountCalls(r)) = 1
        /\ userOut[r].right.value.id = NumUserIds

\* C5: whenever the user lookup found a user and the account lookup succeeded
\* with an absent account, the run succeeds with an absent account, and that
\* result equals the result of any run whose user was absent.
C5_AbsentAccountLikeAbsentUser ==
    /\ \A r \in Runs :
        (UserPresent(r) /\ AccountAbsent(r)) =>
            pc[r] = "done" /\ result[r] = Right(None)
    /\ \A r1, r2 \in Runs :
        (UserAbsent(r1) /\ UserPresent(r2) /\ AccountAbsent(r2)) =>
            result[r1] = result[r2]

C5_Witness ==
    \E r1, r2 \in Runs :
        /\ UserAbsent(r1) /\ pc[r1] = "done"
        /\ UserPresent(r2) /\ AccountAbsent(r2) /\ pc[r2] = "done"

\* C6: whenever the user lookup found a user and the account lookup resolved
\* to a failure e, the run has resolved to a failure carrying that same e,
\* never to a success and never to another error.
C6_AccountFailurePropagates ==
    \A r \in Runs :
        (UserPresent(r) /\ AccountFailed(r)) =>
            /\ pc[r] = "done"
            /\ result[r] = Left(acctOut[r].left)
            /\ acctOut[r].left \in AccountServiceErrors

C6_Witness ==
    \E r \in Runs : UserPresent(r) /\ AccountFailed(r) /\ result[r].tag = "Left"

\* C7: in no reachable state has the account lookup been invoked, or its task
\* obtained, while the user lookup of the same run is still pending.
C7_AccountAfterUser ==
    \A r \in Runs :
        (Len(AccountCalls(r)) > 0 \/ acctTask[r] # NoTask) =>
            /\ userOut[r] # Pending
            /\ pc[r] \in {"acctRunning", "done"}

C7_Witness ==
    \E r \in Runs :
        pc[r] = "acctRunning" /\ Len(AccountCalls(r)) = 1 /\ userOut[r] # Pending

\* C8 as stated: neither calling getAccountByUserEmail(email) nor supplying
\* the environment invokes any collaborator operation; collaborators are
\* invoked only once the resulting task is run.
C8_NoCollaboratorBeforeRun ==
    \A r \in Runs : pc[r] \in {"idle", "built", "supplied"} => calls[r] = <<>>

\* C8 amended: calling getAccountByUserEmail(email) invokes no collaborator
\* operation; supplying the environment invokes the user service operation
\* once, to obtain its task, and nothing else of the orchestration's: until
\* the resulting task is run no task has resolved and the account service
\* operation has not been invoked.
C8_LazyUntilRun ==
    \A r \in Runs :
        /\ pc[r] \in {"idle", "built"} => calls[r] = <<>> /\ userTask[r] = NoTask
        /\ pc[r] = "supplied" =>
            calls[r] = <<CallOf("getUserByEmail", getUserByEmailSpy, email[r])>>
        /\ pc[r] \in {"idle", "built", "supplied"} =>
            /\ userOut[r] = Pending
            /\ acctTask[r] = NoTask /\ acctOut[r] = Pending
            /\ result[r] = Pending

C8_Witness ==
    \E r \in Runs : pc[r] = "supplied" /\ Len(calls[r]) = 1 /\ userOut[r] = Pending

\* C9: with collaborators that are pure functions of their input, two
\* completed runs with the same email have the same result, and made the
\* same collaborator calls with the same arguments.
C9_Idempotent ==
    pure =>
        \A r1, r2 \in Runs :
            (pc[r1] = "done" /\ pc[r2] = "done" /\ email[r1] = email[r2]) =>
                /\ result[r1] = result[r2]
                /\ calls[r1] = calls[r2]

C9_Witness ==
    /\ pure
    /\ \E r1, r2 \in Runs :
        /\ r1 # r2 /\ pc[r1] = "done" /\ pc[r2] = "done" /\ email[r1] = email[r2]
        /\ AccountPresent(r1) /\ AccountPresent(r2)

\* The operation handed to the factory of the service an accessor belongs to.
OperationGivenTo(accessor) ==
    CASE accessor = "getUserByEmail" -> UserDefinition.getUserByEmail
      [] accessor = "getAccountByOwnerId" -> AccountDefinition.getAccountByOwnerId
      [] accessor = "log" -> LoggingDefinition.log

\* C10: in an environment merged from a user, an account and a logging
\* bundle in any order, with or without extra properties, every accessor
\* resolves, and every call made through an accessor invokes, the operation
\* that was passed to its own service's factory.
C10_NoKeyCollision ==
    /\ ResolveOp(env, UserServiceSymbol, "getUserByEmail") = getUserByEmailSpy
    /\ ResolveOp(env, AccountServiceSymbol, "getAccountByOwnerId") = getAccountByOwnerIdSpy
    /\ ResolveOp(env, LoggingServiceSymbol, "log") = mockLog
    /\ \A r \in Runs : \A i \in 1..Len(calls[r]) :
        calls[r][i].op = OperationGivenTo(calls[r][i].accessor)
    /\ \A c \in logCalls : c.op = OperationGivenTo(c.accessor)
    /\ \A r \in Runs : pc[r] # "threw"

C10_Witness ==
    /\ "db" \in DOMAIN env
    /\ logCalls # {}
    /\ \E r \in Runs :
        pc[r] = "done" /\ Len(UserCalls(r)) = 1 /\ Len(AccountCalls(r)) = 1

\* C11: when two account-service bundles, or two logging-service bundles,
\* made by the same factory are merged into one environment object, neither
\* implementation overwrites the other: the environment still holds every
\* implementation that was merged into it, and so an account lookup can
\* still reach either account implementation.
C11_ImplementationsCoexist ==
    \A i \in DOMAIN CoexistBundles :
        \A j \in DOMAIN CoexistBundles[i] :
            \E k \in DOMAIN env : env[k] = CoexistBundles[i][j]

\* ---------------------------------------------------------------- provider properties
DbLookupAnswered ==
    provider = "db" /\ lookupPc \in {"querying", "done"} /\ dbReply # Never

\* db.get reported an error: through its callback, or by throwing.
ReportsError(reply) == reply.via = "throw" \/ Truthy(reply.err)

\* C12: whenever db.get reports an error, through its callback or by
\* throwing, no row validation is attempted and getUserByEmail resolves (its
\* promise does not reject) to a failure that is a UserServiceDbQueryError
\* whose message is the rendering of the original error: the error's own
\* toString() for an Error instance.
C12_QueryFailureReported ==
    (DbLookupAnswered /\ ReportsError(dbReply)) =>
        /\ decodeSpy = <<>>
        /\ lookupPc = "done" =>
            /\ lookupResult.tag = "Left"
            /\ lookupResult.left.class = "UserServiceDbQueryError"
            /\ dbReply.err.kind # "undefined" =>
                /\ IsString(lookupResult.left.message)
                /\ lookupResult.left.message.of = dbReply.err
            /\ dbReply.err.kind = "Error" =>
                lookupResult.left.message.text = "Error.prototype.toString"

C12_Witness ==
    /\ DbLookupAnswered
    /\ lookupPc = "done"
    /\ dbReply.via = "callback"
    /\ dbReply.err.kind = "Error"
    /\ lookupResult.tag = "Left"

\* C13: whenever the query succeeds with no row (null or undefined),
\* getUserByEmail succeeds with an absent user; it is not a failure and
\* User validation is not applied.
C13_MissIsAbsent ==
    (/\ DbLookupAnswered
     /\ lookupPc = "done"
     /\ ~ReportsError(dbReply)
     /\ dbReply.row.kind \in {"null", "undefined"}) =>
        /\ lookupResult = Right(None)
        /\ decodeSpy = <<>>

C13_Witness ==
    /\ DbLookupAnswered
    /\ lookupPc = "done"
    /\ ~ReportsError(dbReply)
    /\ dbReply.row.kind = "undefined"
    /\ lookupResult = Right(None)

\* The row has the User shape: firstName and lastName strings, id a string
\* in UUID format, email a string.
HasUserShape(row) ==
    /\ row.kind = "row"
    /\ row.firstName = "string"
    /\ row.lastName = "string"
    /\ row.id = "uuid"
    /\ row.email = "string"

\* C14: whenever the query succeeds with a row, getUserByEmail succeeds with
\* that row as the present user if and only if the row has the User shape;
\* otherwise it fails with a UserServiceInvalidDataError, never succeeding
\* and never reporting a query failure.
C14_RowValidated ==
    (/\ DbLookupAnswered
     /\ lookupPc = "done"
     /\ ~ReportsError(dbReply)
     /\ dbReply.row.kind \notin {"null", "undefined"}) =>
        /\ decodeSpy = <<dbReply.row>>
        /\ IF HasUserShape(dbReply.row)
           THEN lookupResult = Right(Some(dbReply.row))
           ELSE /\ lookupResult.tag = "Left"
                /\ lookupResult.left.class = "UserServiceInvalidDataError"

C14_Witness ==
    /\ DbLookupAnswered
    /\ lookupPc = "done"
    /\ ~ReportsError(dbReply)
    /\ dbReply.row.kind = "row"
    /\ dbReply.row.id = "string"
    /\ dbReply.row.firstName = "string"
    /\ dbReply.row.lastName = "string"
    /\ dbReply.row.email = "string"
    /\ lookupResult.tag = "Left"

\* C15: for every email, the hardcoded provider's getUserByEmail never fails,
\* logs "Looking up email" with that email, and succeeds with the stored user
\* if and only if the email is the one key of the hardcoded map, with an
\* absent user otherwise, whatever the log tasks resolved to.
C15_HardcodedLookup ==
    provider = "hardcoded" =>
        /\ lookupResult.tag # "Left"
        /\ lookupPc \notin {"idle", "called"} =>
            /\ logSpy[1].arg.literal = "Looking up email "
            /\ logSpy[1].arg.email = lookupEmail
        /\ lookupPc = "done" =>
            lookupResult =
                IF lookupEmail = ekentEmail THEN Right(Some(User(ekentId)))
                ELSE Right(None)
        /\ lookupResult # Pending => lookupPc = "done"

C15_Witness ==
    /\ provider = "hardcoded"
    /\ lookupPc = "done"
    /\ lookupEmail # ekentEmail
    /\ logTask = JsString
    /\ lookupResult = Right(None)

\* The payload the failure of a finished database lookup was constructed from.
FailurePayload ==
    IF ReportsError(dbReply) THEN dbReply.err ELSE UserDecode(dbReply.row).left

\* C16: constructing a DomainError subtype from a payload of any type yields
\* a message that is a string: the payload's own toString() when the payload
\* is an object whose rendering differs from "[object Object]", otherwise a
\* pretty-printed structural dump of the payload.
C16_MessageIsString ==
    (DbLookupAnswered /\ lookupPc = "done" /\ lookupResult.tag = "Left") =>
        /\ IsString(lookupResult.left.message)
        /\ IF /\ TypeOf(FailurePayload) = "object"
              /\ FailurePayload.kind # "null"
              /\ NativeToString(FailurePayload) # ObjectPrototypeToString
           THEN lookupResult.left.message = NativeToString(FailurePayload)
           ELSE /\ lookupResult.left.message.text \in {"JSON.stringify", "util.inspect"}
                /\ lookupResult.left.message.of = FailurePayload

\* ---------------------------------------------------------------- interleaving properties
\* What an invocation running alone resolves to, given what its own user
\* lookup and its own account lookup resolved to.
Alone(ue, ae) ==
    IF ue.tag = "Left" THEN ue
    ELSE IF ue.right.tag = "None" THEN Right(None)
    ELSE ae

\* C17: two invocations against the same environment whose steps interleave
\* do not interact: each makes the collaborator calls it would make alone
\* (the user lookup with its own email, then the account lookup with the id
\* of the user it found itself, never the one the other found), each
\* resolves to what its own lookups dictate, and with pure collaborators to
\* what the collaborators answer for its own input.
C17_NoInterference ==
    \A r \in Runs :
        /\ pc[r] \notin {"idle", "built"} =>
            UserCalls(r) = <<CallOf("getUserByEmail",
                                    UserDefinition.getUserByEmail, email[r])>>
        /\ AccountCalls(r) =
            IF pc[r] \in {"acctRunning", "done"} /\ UserPresent(r)
            THEN <<CallOf("getAccountByOwnerId",
                          AccountDefinition.getAccountByOwnerId,
                          userOut[r].right.value.id)>>
            ELSE <<>>
        /\ pc[r] = "done" => result[r] = Alone(userOut[r], acctOut[r])
        /\ (pure /\ userOut[r] # Pending) => userOut[r] = userTable[email[r]]
        /\ (pure /\ acctOut[r] # Pending) =>
            acctOut[r] = acctTable[userOut[r].right.value.id]

C17_Witness ==
    /\ pc[1] = "acctRunning"
    /\ pc[2] = "acctRunning"
    /\ userOut[1].right.value.id # userOut[2].right.value.id

\* ---------------------------------------------------------------- waiting and termination
\* C18: the orchestration has no timeout and no cancellation. While the user
\* lookup of an invocation never resolves, the invocation does not resolve
\* and its account lookup is not invoked; while the user is present and the
\* account lookup never resolves, the invocation does not resolve.
C18_NoTimeout ==
    \A r \in Runs :
        /\ userTask[r] = Never =>
            /\ result[r] = Pending
            /\ userOut[r] = Pending
            /\ pc[r] \in {"supplied", "userRunning"}
            /\ AccountCalls(r) = <<>>
        /\ acctTask[r] = Never =>
            /\ UserPresent(r)
            /\ result[r] = Pending
            /\ acctOut[r] = Pending
            /\ pc[r] = "acctRunning"

C18_Witness ==
    /\ pc[1] = "userRunning"
    /\ userTask[1] = Never
    /\ pc[2] = "acctRunning"
    /\ acctTask[2] = Never

\* C19 as claimed: whenever getAccountByUserEmail succeeds with a present
\* account, that account's ownerId equals the id of the user the user lookup
\* found.
C19_OwnerIsFoundUser ==
    \A r \in Runs :
        (pc[r] = "done" /\ result[r].tag = "Right" /\ result[r].right.tag = "Some") =>
            result[r].right.value.ownerId = userOut[r].right.value.id

\* The Account service answers a query for an owner id with accounts of that
\* owner only, as a keyed store such as HardcodedAccountDb does.
KeyedByOwner ==
    \A i \in UserIds :
        (acctTable[i] # Unknown /\ acctTable[i] # Never
            /\ acctTable[i].tag = "Right" /\ acctTable[i].right.tag = "Some") =>
                acctTable[i].right.value.ownerId = i

\* C19 (amended): whenever getAccountByUserEmail succeeds with a present
\* account, a user was found, the account lookup was invoked with exactly
\* that user's id, and the account is the one that lookup resolved to,
\* whatever its ownerId; the ownerId equals the found user's id when the
\* Account service answers each owner id with accounts of that owner.
C19_AccountOfFoundUser ==
    \A r \in Runs :
        (pc[r] = "done" /\ result[r].tag = "Right" /\ result[r].right.tag = "Some") =>
            /\ UserPresent(r)
            /\ AccountCalls(r) =
                <<CallOf("getAccountByOwnerId",
                         ResolveOp(env, AccountServiceSymbol, "getAccountByOwnerId"),
                         userOut[r].right.value.id)>>
            /\ acctOut[r] = Right(Some(result[r].right.value))
            /\ (pure /\ KeyedByOwner) =>
                result[r].right.value.ownerId = userOut[r].right.value.id

C19_Witness ==
    \E r \in Runs :
        /\ pc[r] = "done"
        /\ UserPresent(r)
        /\ result[r].tag = "Right"
        /\ result[r].right.tag = "Some"
        /\ result[r].right.value.ownerId # userOut[r].right.value.id

\* An invocation has resolved: to a failure or to a success.
Resolved(r) == result[r] # Pending /\ result[r].tag \in {"Left", "Right"}

\* C20: under fairness of the resolution steps, every invocation that was
\* run and whose invoked collaborator lookups resolve eventually resolves;
\* it resolves to one outcome, a failure or a success, exactly when it is
\* done, and its outcome never changes afterwards.
C20_EventuallyResolves ==
    /\ \A r \in Runs :
        (pc[r] = "userRunning") ~>
            (Resolved(r) \/ userTask[r] = Never \/ acctTask[r] = Never)
    /\ [](\A r \in Runs : Resolved(r) <=> pc[r] = "done")
    /\ [][\A r \in Runs : Resolved(r) => result'[r] = result[r]]_vars

C20_Witness ==
    \E r \in Runs :
        /\ pc[r] = "done"
        /\ AccountPresent(r)
        /\ Resolved(r)

\* ---------------------------------------------------------------- provider step order
\* C21: a lookup against the hardcoded provider makes exactly two log calls,
\* in this order: "Looking up email" with the email, made before the map
\* lookup, then "Result: " with the JSON of the optional user the lookup
\* gave (the stored user's fields on a hit, the tag None on a miss); the
\* result is delivered only after the second log task has completed.
C21_TwoLogsInOrder ==
    provider = "hardcoded" =>
        /\ Len(logSpy) =
            CASE lookupPc \in {"idle", "called"} -> 0
              [] lookupPc = "lookingUp" -> 1
              [] OTHER -> 2
        /\ Len(logSpy) >= 1 =>
            logSpy[1].arg = [literal |-> "Looking up email ", email |-> lookupEmail]
        /\ Len(logSpy) >= 2 =>
            /\ logSpy[2].arg.literal = "Result: "
            /\ logSpy[2].arg.value =
                IF lookupEmail = ekentEmail
                THEN [tag |-> "Some",
                      value |-> [id |-> ekentId, email |-> ekentEmail,
                                 firstName |-> "first", lastName |-> "last"]]
                ELSE [tag |-> "None"]
        /\ lookupResult # Pending =>
            /\ lookupPc = "done"
            /\ Len(logSpy) = 2
            /\ logTask # Never

C21_Witness ==
    /\ provider = "hardcoded"
    /\ lookupPc = "done"
    /\ lookupEmail = ekentEmail
    /\ Len(logSpy) = 2
    /\ lookupResult # Pending

\* C22: a lookup against the database provider first logs "Preparing to
\* query for" with the email, and only after that log task has completed
\* issues db.get, exactly once, with the parameterized query text and the
\* parameter list holding the email; the email is not part of the query text
\* and no second query is issued.
C22_LogThenOneQuery ==
    provider = "db" =>
        /\ lookupPc # "idle" =>
            /\ Len(logSpy) = 1
            /\ logSpy[1].arg = [literal |-> "Preparing to query for ", email |-> lookupEmail]
        /\ Len(dbSpy) = IF lookupPc \in {"querying", "done"} THEN 1 ELSE 0
        /\ dbSpy # <<>> =>
            /\ logSpy # <<>>
            /\ logTask # Never
            /\ dbSpy[1].query = "SELECT * FROM users WHERE email = ?"
            /\ dbSpy[1].param = <<lookupEmail>>

C22_Witness ==
    /\ provider = "db"
    /\ lookupPc = "done"
    /\ Len(dbSpy) = 1
    /\ dbSpy[1].param = <<lookupEmail>>

\* ---------------------------------------------------------------- environment
\* C23: running getAccountByUserEmail leaves the environment object as the
\* composition root assembled it, on every path: no step adds, removes or
\* replaces a capability, and each capability is still the definition object
\* that was given to its factory, unchanged.
C23_EnvironmentUnchanged ==
    /\ [](/\ DOMAIN env = {UserServiceSymbol, AccountServiceSymbol}
          /\ env[UserServiceSymbol] = [getUserByEmail |-> getUserByEmailSpy]
          /\ env[AccountServiceSymbol] = [getAccountByOwnerId |-> getAccountByOwnerIdSpy])
    /\ [][env' = env]_vars

C23_Witness ==
    /\ pc[1] = "done"
    /\ UserFailed(1)
    /\ pc[2] = "done"
    /\ AccountPresent(2)
    /\ env \in OrchestrationEnvironments

\* ---------------------------------------------------------------- hardcoded composition properties
\* C24: with the hardcoded user provider and the hardcoded account provider
\* in one environment, getAccountByUserEmail never fails; it succeeds with
\* the stored account (owned by the stored user) exactly for the stored
\* user's email and with an absent account for every other email; and the
\* account provider answers with an account only for the owner id that is
\* that account's ownerId.
C24_HardcodedComposition ==
    /\ \A r \in Runs :
        /\ result[r] # Pending => result[r].tag = "Right"
        /\ userOut[r] # Pending => userOut[r].tag = "Right"
        /\ acctOut[r] # Pending => acctOut[r].tag = "Right"
        /\ pc[r] = "done" =>
            result[r] =
                IF email[r] = ekentEmail
                THEN Right(Some([accountId |-> hardcodedAccountId, ownerId |-> ekentId]))
                ELSE Right(None)
        /\ (acctOut[r] # Pending /\ acctOut[r].right.tag = "Some") =>
            acctOut[r].right.value.ownerId = AccountCalls(r)[1].arg
    /\ \A i \in UserIds :
        acctTable[i].right.tag = "Some" =>
            /\ i = ekentId
            /\ acctTable[i].right.value.ownerId = i

C24_Witness ==
    /\ pc[1] = "done"
    /\ email[1] = ekentEmail
    /\ result[1].right.tag = "Some"
    /\ pc[2] = "done"
    /\ email[2] # ekentEmail
    /\ result[2] = Right(None)

====
